---- MODULE Spec2Model ----
(***************************************************************************)
(* Clock Slayer backend (src/server.js): the record store behind the CRUD  *)
(* routes, the weekly report generator generateWeeklyCSV, the delivery     *)
(* routine sendWeeklyEmail, the cron firing and the manual trigger route.  *)
(*                                                                         *)
(* Conventions of the model                                                *)
(*  - A timestamp is a record [day, tick]: the UTC calendar day and the    *)
(*    position inside that day.  toISOString().split('T')[0] is the day.   *)
(*  - A DECIMAL(10,2) quantity (duration, miles) is an integer number of   *)
(*    hundredths; a JavaScript string is a sequence of one-character       *)
(*    strings, so toFixed(2) and parseFloat are computed digit by digit.   *)
(*  - A JavaScript value that is either a number or a string (a row's      *)
(*    mileage) is a record [t, n, s] tagged "num" or "str".                *)
(*  - A table is a function from primary key to record.                    *)
(***************************************************************************)
EXTENDS Integers, Sequences, FiniteSets, TLC

VARIABLES projects, timeEntries, mileageEntries, runs, processUp

vars == <<projects, timeEntries, mileageEntries, runs, processUp>>

store == <<projects, timeEntries, mileageEntries>>

(***************************************************************************)
(* Bounds of the model.                                                    *)
(***************************************************************************)
MaxTimeEntries == 2

MaxMileageEntries == 2

MaxRuns == 3

(***************************************************************************)
(* Program constants.                                                      *)
(***************************************************************************)
WindowDays == 7

(***************************************************************************)
(* Value domains used for request bodies and initial store contents.       *)
(***************************************************************************)
ProjectIds == {1, 2}

Null == "<null>"

TimeEntryIds == 1..MaxTimeEntries

Now == [day |-> 9, tick |-> 1]

Miles == {1000, 1250}

(***************************************************************************)
(* Timestamps.                                                             *)
(***************************************************************************)
TsLeq(a, b) == a.day < b.day \/ (a.day = b.day /\ a.tick <= b.tick)

\* toISOString().split('T')[0]: the calendar date of a timestamp
isoDate(ts) == ts.day

\* new Date(); setDate(getDate() - 7)
sevenDaysAgo == [day |-> Now.day - WindowDays, tick |-> Now.tick]

(***************************************************************************)
(* Number formatting and parsing.                                          *)
(***************************************************************************)
DigitChars == <<"0", "1", "2", "3", "4", "5", "6", "7", "8", "9">>

DigitChar(d) == DigitChars[d + 1]

IsDigit(c) == \E d \in 0..9 : DigitChars[d + 1] = c

DigitVal(c) == CHOOSE d \in 0..9 : DigitChars[d + 1] = c

RECURSIVE IntDigits(_)
IntDigits(n) ==
  IF n < 10 THEN <<DigitChar(n)>>
  ELSE Append(IntDigits(n \div 10), DigitChar(n % 10))

\* String(number) in place of toFixed(2): no decimals are padded
toFixed2_String(h) ==
  IntDigits(h \div 100) \o
    (IF h % 100 = 0 THEN <<>>
     ELSE <<".", DigitChar((h % 100) \div 10), DigitChar(h % 10)>>)

\* Number.prototype.toFixed(2) of a non-negative quantity in hundredths
toFixed2(h) ==
  IntDigits(h \div 100) \o <<".">> \o <<DigitChar((h % 100) \div 10), DigitChar(h % 10)>>

RECURSIVE ParseInt(_, _)
ParseInt(s, acc) ==
  IF s = <<>> \/ ~IsDigit(Head(s)) THEN [val |-> acc, rest |-> s]
  ELSE ParseInt(Tail(s), acc * 10 + DigitVal(Head(s)))

\* parseFloat of a string, to hundredths: integer digits, then an optional
\* "." followed by fraction digits of which the first two are kept
parseFloatStr(s) ==
  LET ip == ParseInt(s, 0)
      r == ip.rest
      f == IF r # <<>> /\ Head(r) = "." THEN Tail(r) ELSE <<>>
      d1 == IF Len(f) >= 1 /\ IsDigit(f[1]) THEN DigitVal(f[1]) ELSE 0
      d2 == IF Len(f) >= 2 /\ IsDigit(f[1]) /\ IsDigit(f[2]) THEN DigitVal(f[2]) ELSE 0
  IN ip.val * 100 + d1 * 10 + d2

Num(n) == [t |-> "num", n |-> n, s |-> <<>>]

Str(s) == [t |-> "str", n |-> 0, s |-> s]

\* parseFloat of a value that is a number or a string
parseFloat(v) == IF v.t = "num" THEN v.n ELSE parseFloatStr(v.s)

(***************************************************************************)
(* Queries of generateWeeklyCSV.                                           *)
(***************************************************************************)
\* where startTime >= sevenDaysAgo
TimeFilter(e) == TsLeq(sevenDaysAgo, e.startTime)

\* order: [['startTime', 'DESC']], as the listing route has it
IsAscending_Desc(q) ==
  \A i \in 1..Len(q) : \A j \in 1..Len(q) :
    i < j => TsLeq(q[j].startTime, q[i].startTime)

IsAscending(q) ==
  \A i \in 1..Len(q) : \A j \in 1..Len(q) :
    i < j => TsLeq(q[i].startTime, q[j].startTime)

\* TimeEntry.findAll({where: startTime >= sevenDaysAgo, order: startTime ASC}):
\* the possible results; rows with equal startTime come in either order
findTimeEntries(te) ==
  LET ids == {i \in DOMAIN te : TimeFilter(te[i])}
      n == Cardinality(ids)
      perms == {p \in [1..n -> ids] : \A a \in 1..n : \A b \in 1..n : a # b => p[a] # p[b]}
      rowsOf(p) == [k \in 1..n |-> te[p[k]]]
  IN {rowsOf(p) : p \in {q \in perms : IsAscending(rowsOf(q))}}

\* where date >= sevenDaysAgo.toISOString().split('T')[0]
MileageFilter(me) == me.date >= isoDate(sevenDaysAgo)

\* MileageEntry.findAll({where: date >= ...}): the records, keyed by id
findMileageEntries(mt) ==
  [i \in {j \in DOMAIN mt : MileageFilter(mt[j])} |-> mt[i]]

(***************************************************************************)
(* The computation of generateWeeklyCSV after its three queries.           *)
(***************************************************************************)
\* projectMap[p.id] = p.name
projectMap(projs) == [id \in DOMAIN projs |-> projs[id].name]

\* projectMap[entry.projectId] || 'Unknown'
ProjectLabel(pm, pid) ==
  IF pid \in DOMAIN pm /\ pm[pid] # "" THEN pm[pid] ELSE "Unknown"

RECURSIVE SumMiles(_, _)
SumMiles(mes, ids) ==
  IF ids = {} THEN 0
  ELSE LET i == CHOOSE x \in ids : TRUE
       IN mes[i].miles + SumMiles(mes, ids \ {i})

\* mileageByProjectDate[key] = parseFloat(me.miles): one entry's miles per key
mileageByProjectDate_Overwrite(mes) ==
  LET keys == {<<mes[i].projectId, mes[i].date>> : i \in DOMAIN mes}
  IN [k \in keys |->
        mes[CHOOSE i \in DOMAIN mes : <<mes[i].projectId, mes[i].date>> = k].miles]

\* mileageByProjectDate: key `${projectId}_${date}` -> sum of parseFloat(miles);
\* the key string is modelled by the pair <<projectId, date>>
mileageByProjectDate(mes) ==
  LET keys == {<<mes[i].projectId, mes[i].date>> : i \in DOMAIN mes}
  IN [k \in keys |->
        SumMiles(mes, {i \in DOMAIN mes : <<mes[i].projectId, mes[i].date>> = k})]

\* mileageByProjectDate[mileageKey] || '0.00'
MileageValue(mbpd, key) ==
  IF key \in DOMAIN mbpd /\ mbpd[key] # 0 THEN Num(mbpd[key])
  ELSE Str(<<"0", ".", "0", "0">>)

\* toLocaleTimeString('en-US', {hour, minute}): the time of day of a timestamp
localTime(ts) == ts.tick

\* one element of timeEntries.map(...)
csvRow(entry, pm, mbpd) ==
  [date |-> isoDate(entry.startTime),
   project |-> ProjectLabel(pm, entry.projectId),
   timeIn |-> localTime(entry.startTime),
   timeOut |-> localTime(entry.endTime),
   totalTime |-> toFixed2(entry.duration),
   mileage |-> MileageValue(mbpd, <<entry.projectId, isoDate(entry.startTime)>>),
   projectNotes |-> IF entry.notes = Null THEN "" ELSE entry.notes]

csvDataOf(teRows, mes, projs) ==
  [i \in 1..Len(teRows) |->
     csvRow(teRows[i], projectMap(projs), mileageByProjectDate(mes))]

CsvHeader == <<"Date", "Project", "Time In", "Time Out", "Total Time (hours)",
               "Mileage (miles)", "Project Notes">>

\* String(number) of a quantity in hundredths: trailing zeros are not printed
numToString(h) ==
  IntDigits(h \div 100) \o
    (IF h % 100 = 0 THEN <<>>
     ELSE IF h % 10 = 0 THEN <<".", DigitChar((h % 100) \div 10)>>
     ELSE <<".", DigitChar((h % 100) \div 10), DigitChar(h % 10)>>)

\* the fields of one record line, in header order
csvLine(row) ==
  <<row.date, row.project, row.timeIn, row.timeOut, row.totalTime,
    IF row.mileage.t = "num" THEN numToString(row.mileage.n) ELSE row.mileage.s,
    row.projectNotes>>

\* getHeaderString() + stringifyRecords(csvData), as a sequence of lines
csvContentOf(rows) == <<CsvHeader>> \o [i \in 1..Len(rows) |-> csvLine(rows[i])]

RECURSIVE SumHours(_)
SumHours(rows) ==
  IF rows = <<>> THEN 0 ELSE parseFloatStr(Head(rows).totalTime) + SumHours(Tail(rows))

RECURSIVE SumRowMiles(_)
SumRowMiles(rows) ==
  IF rows = <<>> THEN 0 ELSE parseFloat(Head(rows).mileage) + SumRowMiles(Tail(rows))

RECURSIVE SumDistinctMiles(_, _)
SumDistinctMiles(rows, seen) ==
  IF rows = <<>> THEN 0
  ELSE LET k == <<Head(rows).project, Head(rows).date>>
       IN (IF k \in seen THEN 0 ELSE parseFloat(Head(rows).mileage))
            + SumDistinctMiles(Tail(rows), seen \cup {k})

\* each project and date counted once instead of once per row
totalMilesOf_Distinct(rows) == toFixed2(SumDistinctMiles(rows, {}))

\* csvData.reduce((sum, e) => sum + parseFloat(e.mileage), 0).toFixed(2)
totalMilesOf(rows) == toFixed2(SumRowMiles(rows))

\* the object generateWeeklyCSV returns
generateWeeklyCSV(rows) ==
  [csvContent |-> csvContentOf(rows),
   entryCount |-> Len(rows),
   totalHours |-> toFixed2(SumHours(rows)),
   totalMiles |-> totalMilesOf(rows)]

NoResult == [csvContent |-> <<>>, entryCount |-> 0, totalHours |-> <<>>, totalMiles |-> <<>>]

(***************************************************************************)
(* One invocation of sendWeeklyEmail (a pipeline run).                     *)
(*   pc: the await the run is suspended at: "readTime", "readMileage",     *)
(*       "readProjects" (the three queries of generateWeeklyCSV), "fetch", *)
(*       "text", "json" (the delivery call and the reading of its          *)
(*       response), "respond" (the promise has settled and the manual      *)
(*       trigger's handler has yet to answer), "done".                     *)
(*   timeEntries, mileageEntries, projects, csvData, result: the locals of *)
(*       generateWeeklyCSV and what it returned.                           *)
(*   attempts: delivery calls issued; delivered: the channel accepted one. *)
(*   threw: an exception was raised inside the try block.                  *)
(*   logged: what the run wrote to the console at its end.                 *)
(*   settled: how the promise of sendWeeklyEmail settled.                  *)
(*   response: what the manual trigger's caller was answered.              *)
(*   afterFailure: a failed scheduled run had finished when it started.    *)
(***************************************************************************)
EmptyTable == [i \in {} |-> 0]

NewRun(trigger, prior) ==
  [trigger |-> trigger, pc |-> "readTime",
   timeEntries |-> <<>>, mileageEntries |-> EmptyTable, projects |-> EmptyTable,
   csvData |-> <<>>, result |-> NoResult,
   attempts |-> 0, delivered |-> FALSE, threw |-> FALSE,
   logged |-> "none", settled |-> "pending", response |-> "none",
   afterFailure |-> prior]

\* where control goes once the promise of sendWeeklyEmail has settled: the
\* manual trigger's handler awaits it, the cron callback does not
AfterSettle(run) == IF run.trigger = "manual" THEN "respond" ELSE "done"

\* the run once sendWeeklyEmail has returned: its locals are gone
Settle(run, how) ==
  [run EXCEPT !.pc = AfterSettle(run), !.settled = how,
              !.timeEntries = <<>>, !.mileageEntries = EmptyTable,
              !.projects = EmptyTable, !.csvData = <<>>, !.result = NoResult]

OnThrow_Rethrow(run) ==
  Settle([run EXCEPT !.threw = TRUE, !.logged = "error"], "rejected")

OnThrow_Retry(run) ==
  [Settle([run EXCEPT !.threw = TRUE, !.logged = "error"], "pending")
     EXCEPT !.pc = "readTime"]

\* the catch block: console.error, and the function returns normally
OnThrow(run) ==
  Settle([run EXCEPT !.threw = TRUE, !.logged = "error"], "resolved")

\* the end of the try block: console.log of the success, normal return
OnSent(run) == Settle([run EXCEPT !.logged = "success"], "resolved")

\* a rejected promise nobody awaits (the cron callback's) ends the process
Unhandled(run) == run.trigger = "cron" /\ run.settled = "rejected"

InProgress(run) == run.pc # "done"

Generated(run) == run.pc \in {"fetch", "text", "json"}

FailedScheduled(rs) ==
  Cardinality({r \in 1..Len(rs) :
                 rs[r].trigger = "cron" /\ rs[r].threw /\ rs[r].pc = "done"})

SetRun(r, new) ==
  /\ runs' = [runs EXCEPT ![r] = new]
  /\ processUp' = (processUp /\ ~Unhandled(new))

\* cron.schedule('44 20 * * 5', () => { sendWeeklyEmail(); })
CronFire ==
  /\ processUp
  /\ Len(runs) < MaxRuns
  /\ runs' = Append(runs, NewRun("cron", FailedScheduled(runs) > 0))
  /\ UNCHANGED <<store, processUp>>

\* app.post('/api/test-email'): the handler calls sendWeeklyEmail and awaits it
PostTestEmail ==
  /\ processUp
  /\ Len(runs) < MaxRuns
  /\ runs' = Append(runs, NewRun("manual", FailedScheduled(runs) > 0))
  /\ UNCHANGED <<store, processUp>>

\* await TimeEntry.findAll(...)
ReadTimeEntries(r) ==
  /\ processUp
  /\ runs[r].pc = "readTime"
  /\ \/ \E q \in findTimeEntries(timeEntries) :
          SetRun(r, [runs[r] EXCEPT !.timeEntries = q, !.pc = "readMileage"])
     \/ SetRun(r, OnThrow(runs[r]))
  /\ UNCHANGED store

\* await MileageEntry.findAll(...)
ReadMileageEntries(r) ==
  /\ processUp
  /\ runs[r].pc = "readMileage"
  /\ \/ SetRun(r, [runs[r] EXCEPT !.mileageEntries = findMileageEntries(mileageEntries),
                                  !.pc = "readProjects"])
     \/ SetRun(r, OnThrow(runs[r]))
  /\ UNCHANGED store

\* the run once Project.findAll() has answered: generateWeeklyCSV computes
\* and returns, sendWeeklyEmail builds the message and issues the fetch
Compose(run, projs) ==
  LET rows == csvDataOf(run.timeEntries, run.mileageEntries, projs)
  IN [run EXCEPT !.projects = projs, !.csvData = rows,
                 !.result = generateWeeklyCSV(rows),
                 !.attempts = @ + 1, !.pc = "fetch"]

\* await Project.findAll()
ReadProjects(r) ==
  /\ processUp
  /\ runs[r].pc = "readProjects"
  /\ \/ SetRun(r, Compose(runs[r], projects))
     \/ SetRun(r, OnThrow(runs[r]))
  /\ UNCHANGED store

\* await fetch('https://api.resend.com/emails', ...)
FetchSettles(r) ==
  /\ processUp
  /\ runs[r].pc = "fetch"
  /\ \/ SetRun(r, [runs[r] EXCEPT !.delivered = TRUE, !.pc = "json"])
     \/ SetRun(r, [runs[r] EXCEPT !.pc = "text"])
     \/ SetRun(r, OnThrow(runs[r]))
  /\ UNCHANGED store

\* !response.ok: await response.text(); throw new Error(...)
ResponseText(r) ==
  /\ processUp
  /\ runs[r].pc = "text"
  /\ SetRun(r, OnThrow(runs[r]))
  /\ UNCHANGED store

\* await response.json(); console.log(...)
ResponseJson(r) ==
  /\ processUp
  /\ runs[r].pc = "json"
  /\ \/ SetRun(r, OnSent(runs[r]))
     \/ SetRun(r, OnThrow(runs[r]))
  /\ UNCHANGED store

\* what the manual trigger's handler answers once sendWeeklyEmail has settled
Answer(run) == IF run.settled = "resolved" THEN "success" ELSE "error"

\* res.json({success: true, ...}) or res.status(500).json({error})
Respond(r) ==
  /\ processUp
  /\ runs[r].pc = "respond"
  /\ SetRun(r, [runs[r] EXCEPT !.response = Answer(runs[r]), !.pc = "done"])
  /\ UNCHANGED store

RunStep ==
  \E r \in 1..Len(runs) :
    \/ ReadTimeEntries(r)
    \/ ReadMileageEntries(r)
    \/ ReadProjects(r)
    \/ FetchSettles(r)
    \/ ResponseText(r)
    \/ ResponseJson(r)
    \/ Respond(r)

(***************************************************************************)
(* Spec: the scheduler and the manual trigger over a store that holds the  *)
(* records of one week and is not written to.                              *)
(***************************************************************************)
\* a TimeEntry row; duration is stored on its own, not derived from the
\* timestamps: 1.50 h, or 1.75 h for an entry that starts at the later tick
TimeEntryRec(pid, ts) ==
  [projectId |-> pid, startTime |-> ts, endTime |-> ts,
   duration |-> 150 + 25 * ts.tick, notes |-> Null]

MileageRec(pid, d, m) == [projectId |-> pid, date |-> d, miles |-> m, notes |-> Null]

Init ==
  /\ projects = (1 :> [name |-> "Deck Build"])
  /\ timeEntries = (1 :> TimeEntryRec(1, [day |-> 3, tick |-> 0]))
  /\ mileageEntries = (1 :> MileageRec(1, 3, 1250))
  /\ runs = <<>>
  /\ processUp = TRUE

Next == CronFire \/ PostTestEmail \/ RunStep

Spec == Init /\ [][Next]_vars

(***************************************************************************)
(* The record store routes.  A request that ends in a database error is    *)
(* answered 500 and leaves the table as it was.                            *)
(***************************************************************************)
NoId == 0

\* Model.create(body): a second row with the same primary key is rejected
createRow(table, id, rec) ==
  IF id \in DOMAIN table THEN table ELSE (id :> rec) @@ table

\* Model.destroy({where: {id}})
destroyRow(table, id) == [k \in DOMAIN table \ {id} |-> table[k]]

\* Model.update(body, {where: {id}}): every attribute the body names is
\* written, the primary key included; newId is NoId when the body has no id
updateRow(table, id, newId, rec) ==
  LET key == IF newId = NoId THEN id ELSE newId
  IN IF id \notin DOMAIN table THEN table
     ELSE IF key # id /\ key \in DOMAIN table THEN table
     ELSE (key :> rec) @@ destroyRow(table, id)

StoreNames == {"", "Deck Build"}

StoreTime == [day |-> 3, tick |-> 0]

StoreMileageIds == {1}

\* app.post('/api/projects'): name is Null when the body has none
PostProject(id, name) ==
  /\ processUp
  /\ projects' = IF name = Null THEN projects
                 ELSE createRow(projects, id, [name |-> name])
  /\ UNCHANGED <<timeEntries, mileageEntries, runs, processUp>>

\* app.put('/api/projects/:id'): newId and name are what the body carries
PutProject(id, newId, name) ==
  /\ processUp
  /\ projects' = IF id \notin DOMAIN projects THEN projects
                 ELSE updateRow(projects, id, newId,
                        [name |-> IF name = Null THEN projects[id].name ELSE name])
  /\ UNCHANGED <<timeEntries, mileageEntries, runs, processUp>>

\* app.delete('/api/projects/:id')
DeleteProject(id) ==
  /\ processUp
  /\ projects' = destroyRow(projects, id)
  /\ UNCHANGED <<timeEntries, mileageEntries, runs, processUp>>

\* app.post('/api/time-entries')
PostTimeEntry(id, pid) ==
  /\ processUp
  /\ timeEntries' = createRow(timeEntries, id, TimeEntryRec(pid, StoreTime))
  /\ UNCHANGED <<projects, mileageEntries, runs, processUp>>

\* app.put('/api/time-entries/:id')
PutTimeEntry(id, newId, pid) ==
  /\ processUp
  /\ timeEntries' = IF id \notin DOMAIN timeEntries THEN timeEntries
                    ELSE updateRow(timeEntries, id, newId,
                           [timeEntries[id] EXCEPT !.projectId = pid])
  /\ UNCHANGED <<projects, mileageEntries, runs, processUp>>

\* app.delete('/api/time-entries/:id')
DeleteTimeEntry(id) ==
  /\ processUp
  /\ timeEntries' = destroyRow(timeEntries, id)
  /\ UNCHANGED <<projects, mileageEntries, runs, processUp>>

\* app.post('/api/mileage-entries')
PostMileageEntry(id, pid, m) ==
  /\ processUp
  /\ mileageEntries' = createRow(mileageEntries, id, MileageRec(pid, StoreTime.day, m))
  /\ UNCHANGED <<projects, timeEntries, runs, processUp>>

\* app.put('/api/mileage-entries/:id')
PutMileageEntry(id, newId, m) ==
  /\ processUp
  /\ mileageEntries' = IF id \notin DOMAIN mileageEntries THEN mileageEntries
                       ELSE updateRow(mileageEntries, id, newId,
                              [mileageEntries[id] EXCEPT !.miles = m])
  /\ UNCHANGED <<projects, timeEntries, runs, processUp>>

\* app.delete('/api/mileage-entries/:id')
DeleteMileageEntry(id) ==
  /\ processUp
  /\ mileageEntries' = destroyRow(mileageEntries, id)
  /\ UNCHANGED <<projects, timeEntries, runs, processUp>>

\* app.post('/api/test-email') with no run in progress; the records of the
\* runs that have finished are dropped
PostTestEmailIdle ==
  /\ processUp
  /\ \A r \in 1..Len(runs) : ~InProgress(runs[r])
  /\ runs' = <<NewRun("manual", FALSE)>>
  /\ UNCHANGED <<store, processUp>>

(***************************************************************************)
(* SpecStore: requests to the record store interleaved with one pipeline   *)
(* run at a time, from an empty store.                                     *)
(***************************************************************************)
InitStore ==
  /\ projects = EmptyTable
  /\ timeEntries = EmptyTable
  /\ mileageEntries = EmptyTable
  /\ runs = <<>>
  /\ processUp = TRUE

ProjectRequest ==
  \E id \in ProjectIds :
    \/ \E name \in StoreNames \cup {Null} : PostProject(id, name)
    \/ \E newId \in ProjectIds \cup {NoId} : \E name \in StoreNames \cup {Null} :
         PutProject(id, newId, name)
    \/ DeleteProject(id)

TimeEntryRequest ==
  \E id \in TimeEntryIds :
    \/ \E pid \in ProjectIds : PostTimeEntry(id, pid)
    \/ \E newId \in TimeEntryIds \cup {NoId} : \E pid \in ProjectIds :
         PutTimeEntry(id, newId, pid)
    \/ DeleteTimeEntry(id)

MileageEntryRequest ==
  \E id \in StoreMileageIds :
    \/ PostMileageEntry(id, 1, 1000)
    \/ \E m \in Miles : PutMileageEntry(id, NoId, m)
    \/ DeleteMileageEntry(id)

NextStore ==
  \/ ProjectRequest
  \/ TimeEntryRequest
  \/ MileageEntryRequest
  \/ PostTestEmailIdle
  \/ RunStep

SpecStore == InitStore /\ [][NextStore]_vars

(***************************************************************************)
(* SpecReport: generateWeeklyCSV over every store content within the       *)
(* bounds, the store not being written to while the report is generated.   *)
(* Primary keys are 1..n and the records are listed in a fixed order: the  *)
(* report does not read a primary key.                                     *)
(***************************************************************************)
\* start timestamps: the day of the window's start before and at its
\* instant, a day inside the window, a day after Now
ReportTimes ==
  {[day |-> sevenDaysAgo.day, tick |-> 0], sevenDaysAgo,
   [day |-> sevenDaysAgo.day + 1, tick |-> 0], [day |-> Now.day + 1, tick |-> 0]}

ReportDates == {sevenDaysAgo.day - 1, sevenDaysAgo.day, sevenDaysAgo.day + 1}

TimeEntryOptions == {TimeEntryRec(pid, ts) : pid \in ProjectIds, ts \in ReportTimes}

MileageOptions ==
  {MileageRec(pid, d, m) : pid \in ProjectIds, d \in ReportDates, m \in Miles}

TimeRank(e) == (e.projectId * 100 + e.startTime.day) * 10 + e.startTime.tick

MileageRank(e) == (e.projectId * 100 + e.date) * 10000 + e.miles

\* tables with keys 1..k, k <= n, their records in nondecreasing rank
TimeEntryTables(n) ==
  UNION {{f \in [1..k -> TimeEntryOptions] :
            \A i \in 1..(k - 1) : TimeRank(f[i]) <= TimeRank(f[i + 1])} : k \in 0..n}

MileageTables(n) ==
  UNION {{f \in [1..k -> MileageOptions] :
            \A i \in 1..(k - 1) : MileageRank(f[i]) <= MileageRank(f[i + 1])} : k \in 0..n}

ProjectTables ==
  {[id \in S |-> [name |-> IF id = 1 THEN "Deck Build" ELSE "Shed"]] : S \in SUBSET ProjectIds}

InitReport ==
  /\ projects \in ProjectTables
  /\ timeEntries \in TimeEntryTables(MaxTimeEntries)
  /\ mileageEntries \in MileageTables(MaxMileageEntries)
  /\ runs = <<>>
  /\ processUp = TRUE

\* generateWeeklyCSV from its first query to its return, the three queries
\* answered from the same store content
GenerateReport ==
  /\ processUp
  /\ runs = <<>>
  /\ \E q \in findTimeEntries(timeEntries) :
       runs' = <<Compose([NewRun("manual", FALSE) EXCEPT
                            !.timeEntries = q,
                            !.mileageEntries = findMileageEntries(mileageEntries)],
                         projects)>>
  /\ UNCHANGED <<store, processUp>>

NextReport == GenerateReport

SpecReport == InitReport /\ [][NextReport]_vars

(***************************************************************************)
(* Properties.                                                             *)
(***************************************************************************)
RunIds == 1..Len(runs)

\* the pipeline of a run is executing (sendWeeklyEmail has not returned)
PipelineActive(run) ==
  run.pc \in {"readTime", "readMileage", "readProjects", "fetch", "text", "json"}

\* C1: a manual-trigger run that failed in any stage answers its caller with
\* a failure, and a success answer is given only when the report was
\* delivered.
C1_ManualFailureSurfaced ==
  \A r \in RunIds :
    (runs[r].trigger = "manual" /\ runs[r].pc = "done") =>
      /\ runs[r].threw => runs[r].response = "error"
      /\ runs[r].response = "success" => runs[r].delivered

\* C2: a failure in a scheduled run is caught and logged inside the run; the
\* process stays up and the next scheduled firing can start a new run.
C2_ScheduledFailureContained ==
  /\ processUp
  /\ \A r \in RunIds :
       (runs[r].trigger = "cron" /\ runs[r].threw) =>
         (runs[r].logged = "error" /\ runs[r].settled = "resolved")
  /\ Len(runs) < MaxRuns => ENABLED CronFire

\* a scheduled run that was started after a failed scheduled run had ended
C2_Witness ==
  \E r \in RunIds :
    /\ runs[r].trigger = "cron"
    /\ runs[r].afterFailure
    /\ runs[r].pc # "readTime"

\* C3: at no time are two pipeline runs in progress together.
C3_Serialized ==
  Cardinality({r \in RunIds : PipelineActive(runs[r])}) <= 1

\* C8: every run makes at most one delivery attempt, and a run that failed
\* has ended: it is not started again.
C8_NoRetry ==
  \A r \in RunIds :
    /\ runs[r].attempts <= 1
    /\ runs[r].threw => runs[r].pc \in {"respond", "done"}

\* a run whose one delivery attempt failed has ended, and a later run, started
\* by a later trigger, has made its own attempt
C8_Witness ==
  \E r1 \in RunIds : \E r2 \in RunIds :
    /\ r1 < r2
    /\ runs[r1].trigger = "cron" /\ runs[r1].pc = "done"
    /\ runs[r1].threw /\ runs[r1].attempts = 1 /\ ~runs[r1].delivered
    /\ runs[r2].afterFailure /\ runs[r2].attempts = 1

\* start timestamp >= window start: the entries the report window holds
InWindow(e) == TsLeq(sevenDaysAgo, e.startTime)

WindowCount == Cardinality({i \in DOMAIN timeEntries : InWindow(timeEntries[i])})

\* the miles of all mileage entries of the store with this project and date
KeyMiles(pid, d) ==
  SumMiles(mileageEntries,
           {j \in DOMAIN mileageEntries :
              mileageEntries[j].projectId = pid /\ mileageEntries[j].date = d})

\* C4: each row's mileage is the sum of the miles of all mileage entries of
\* the store with the row's project and the calendar date of its start
\* timestamp, zero when there is none.
C4_RowMileageIsKeySum ==
  \A r \in RunIds :
    Generated(runs[r]) =>
      \A i \in 1..Len(runs[r].csvData) :
        parseFloat(runs[r].csvData[i].mileage) =
          KeyMiles(runs[r].timeEntries[i].projectId,
                   isoDate(runs[r].timeEntries[i].startTime))

\* a row whose project and date have two mileage entries
C4_Witness ==
  \E r \in RunIds :
    /\ Generated(runs[r])
    /\ \E i \in 1..Len(runs[r].csvData) :
         /\ Cardinality({j \in DOMAIN mileageEntries :
              /\ mileageEntries[j].projectId = runs[r].timeEntries[i].projectId
              /\ mileageEntries[j].date = isoDate(runs[r].timeEntries[i].startTime)}) = 2
         /\ runs[r].csvData[i].mileage = Num(2250)

RECURSIVE SumKeyMiles(_)
SumKeyMiles(q) ==
  IF q = <<>> THEN 0
  ELSE KeyMiles(Head(q).projectId, isoDate(Head(q).startTime)) + SumKeyMiles(Tail(q))

\* two time entries of project 1 on one day and one mileage entry of 10 miles
\* for that project and day
QuirkScenario ==
  /\ DOMAIN timeEntries = {1, 2}
  /\ \A i \in {1, 2} : timeEntries[i].projectId = 1 /\ InWindow(timeEntries[i])
  /\ isoDate(timeEntries[1].startTime) = isoDate(timeEntries[2].startTime)
  /\ DOMAIN mileageEntries = {1}
  /\ mileageEntries[1] = MileageRec(1, isoDate(timeEntries[1].startTime), 1000)

\* C5: total miles is the sum over the rows of each row's mileage, a mileage
\* entry counted once per row of its project and date; in the scenario both
\* rows report 10 and the total is "20.00".
C5_TotalMilesSumsRows ==
  \A r \in RunIds :
    Generated(runs[r]) =>
      /\ runs[r].result.totalMiles = toFixed2(SumKeyMiles(runs[r].timeEntries))
      /\ QuirkScenario =>
           /\ Len(runs[r].csvData) = 2
           /\ \A i \in {1, 2} : runs[r].csvData[i].mileage = Num(1000)
           /\ runs[r].result.totalMiles = <<"2", "0", ".", "0", "0">>

C5_Witness ==
  \E r \in RunIds : Generated(runs[r]) /\ QuirkScenario

C7_LabelIsProjectName ==
  \A r \in RunIds :
    Generated(runs[r]) =>
      \A i \in 1..Len(runs[r].csvData) :
        LET pid == runs[r].timeEntries[i].projectId
        IN runs[r].csvData[i].project =
             IF pid \in DOMAIN runs[r].projects
             THEN runs[r].projects[pid].name ELSE "Unknown"

\* a report with a row whose project is gone, labelled "Unknown"
C7_Witness ==
  \E r \in RunIds :
    /\ Generated(runs[r])
    /\ \E i \in 1..Len(runs[r].csvData) :
         /\ runs[r].timeEntries[i].projectId \notin DOMAIN runs[r].projects
         /\ runs[r].csvData[i].project = "Unknown"

\* C9: no update request changes the identifier of an existing Project.
C9_IdentifierImmutable ==
  [][\A id \in ProjectIds : \A newId \in ProjectIds \cup {NoId} :
       \A name \in StoreNames \cup {Null} :
         PutProject(id, newId, name) => DOMAIN projects' = DOMAIN projects]_vars

====
